---------------------------- MODULE Spec2Model ----------------------------
(***************************************************************************)
(* A model of the two core programs of ciencia-mx:                         *)
(*   src/resolve_fetch.py  (dc:identifier -> binary in spool/bin)          *)
(*   src/extract_text.py   (spool binary -> normalized text + manifest)    *)
(* Strings (URLs, identifiers, file names) are TLA+ strings; bytes of a    *)
(* binary and characters of an extracted text are sequences of integers    *)
(* (byte values, Unicode code points).                                     *)
(***************************************************************************)
EXTENDS Integers, Sequences, FiniteSets, TLC

VARIABLES
    pc,        \* position of the running program ("done" when it has ended)
    exit,      \* how the run ended: "none", "ok", "exit0", "exit1", "exception"
    flog,      \* logs/fetch.log, a sequence of JSON lines
    spool,     \* spool/bin: file name -> bytes
    f,         \* locals of resolve_fetch.main
    net,       \* requests issued by the current retry-wrapped call / last call
    corpus,    \* corpus/raw/<RI>/<sha>.txt : <<ri, sha>> -> text
    manifest,  \* corpus/raw/<RI>/manifest.jsonl, per RI a sequence of records
    e,         \* locals of extract_text.main
    tika,      \* requests sent to the extraction service by the current run
    faults     \* number of transient network failures so far

vars == <<pc, exit, flog, spool, f, net, corpus, manifest, e, tika, faults>>

NULL == "<none>"

(***************************************************************************)
(* Bounds of the model.                                                    *)
(***************************************************************************)
MaxFiles == 2      \* XML files in raw/oai/<RI> of one fetch run
MaxFaults == 1     \* transient failures (timeout, 5xx, broken stream) in one behaviour
MaxSpool == 2      \* files in spool/bin when an extraction run starts
MaxIds == 3        \* dc:identifier elements of a record given to the resolver
MaxText == 3       \* characters of a text given to normalize_text
MaxHrefs == 3      \* anchors of a landing page given to scrape_pdf_link

(***************************************************************************)
(* String helpers (Python str methods used by the code).                   *)
(***************************************************************************)
StartsWith(s, p) == Len(s) >= Len(p) /\ SubSeq(s, 1, Len(p)) = p

EndsWith(s, p) == Len(s) >= Len(p) /\ SubSeq(s, Len(s) - Len(p) + 1, Len(s)) = p

Contains(s, p) == \E i \in 1..(Len(s) - Len(p) + 1) : SubSeq(s, i, i + Len(p) - 1) = p

UpperChars == "ABCDEFGHIJKLMNOPQRSTUVWXYZ"

LowerChars == "abcdefghijklmnopqrstuvwxyz"

LowerChar(c) ==
    IF \E i \in 1..26 : SubSeq(UpperChars, i, i) = c
    THEN LET i == CHOOSE j \in 1..26 : SubSeq(UpperChars, j, j) = c
         IN  SubSeq(LowerChars, i, i)
    ELSE c

RECURSIVE Lower(_)
Lower(s) == IF Len(s) = 0 THEN "" ELSE LowerChar(SubSeq(s, 1, 1)) \o Lower(Tail(s))

IsSpaceChar(c) == c \in {" ", "\t", "\n", "\r", "\f"}

RECURSIVE LStrip(_)
LStrip(s) == IF Len(s) > 0 /\ IsSpaceChar(SubSeq(s, 1, 1)) THEN LStrip(Tail(s)) ELSE s

RECURSIVE RStrip(_)
RStrip(s) ==
    IF Len(s) > 0 /\ IsSpaceChar(SubSeq(s, Len(s), Len(s)))
    THEN RStrip(SubSeq(s, 1, Len(s) - 1))
    ELSE s

Strip(s) == RStrip(LStrip(s))

\* s.split(sep, 1)[0] for a one-character separator
RECURSIVE SplitHead(_, _)
SplitHead(s, sep) ==
    IF Len(s) = 0 \/ SubSeq(s, 1, 1) = sep THEN ""
    ELSE SubSeq(s, 1, 1) \o SplitHead(Tail(s), sep)

\* s.rsplit(sep, 1)[0] for a one-character separator
RECURSIVE RSplitHead(_, _)
RSplitHead(s, sep) ==
    IF ~Contains(s, sep) THEN s
    ELSE IF SubSeq(s, Len(s), Len(s)) = sep THEN SubSeq(s, 1, Len(s) - 1)
    ELSE RSplitHead(SubSeq(s, 1, Len(s) - 1), sep)

(***************************************************************************)
(* Candidate Resolver: resolve_fetch.find_urls_from_xml.                   *)
(* An XML file is [wellformed, identifiers]: whether lxml parses it, and   *)
(* the text of its dc:identifier elements in document order.               *)
(***************************************************************************)
normalize_identifier(t0) ==
    LET t == Strip(t0)
    IN  IF StartsWith(Lower(t), "doi:")
        THEN "https://doi.org/" \o Strip(SubSeq(t, 5, Len(t)))
        ELSE t

\* a filter that lets every non-empty identifier through
qualifies_any(t) == TRUE

qualifies(t) ==
    \/ StartsWith(t, "http://")
    \/ StartsWith(t, "https://")
    \/ Contains(Lower(t), "doi.org")
    \/ StartsWith(Lower(t), "doi:")

RECURSIVE collect_urls(_)
collect_urls(ids) ==
    IF ids = <<>> THEN <<>>
    ELSE LET t == Strip(Head(ids))
         IN  IF t # "" /\ qualifies(t)
             THEN <<normalize_identifier(t)>> \o collect_urls(Tail(ids))
             ELSE collect_urls(Tail(ids))

B2N(b) == IF b THEN 1 ELSE 0

\* a key of four classes: DOI, handle, .pdf, the rest
priority_four_classes(u) ==
    LET low == Lower(u)
    IN  IF Contains(low, "doi.org") THEN 0
        ELSE IF Contains(low, "handle") \/ Contains(low, "hdl.handle.net") THEN 1
        ELSE IF EndsWith(low, ".pdf") THEN 2
        ELSE 3

\* the tuple (no doi, no handle, no .pdf) as its rank in the tuple order
priority(u) ==
    LET low == Lower(u)
    IN  4 * B2N(~Contains(low, "doi.org"))
        + 2 * B2N(~Contains(low, "handle") /\ ~Contains(low, "hdl.handle.net"))
        + B2N(~EndsWith(low, ".pdf"))

RECURSIVE SelectRank(_, _)
SelectRank(us, k) ==
    IF us = <<>> THEN <<>>
    ELSE IF priority(Head(us)) = k THEN <<Head(us)>> \o SelectRank(Tail(us), k)
    ELSE SelectRank(Tail(us), k)

\* sorted(urls, key=priority): Python's sort is stable
RECURSIVE SortedFrom(_, _)
SortedFrom(us, k) == IF k > 7 THEN <<>> ELSE SelectRank(us, k) \o SortedFrom(us, k + 1)

sorted_by_priority(us) == SortedFrom(us, 0)

\* no removal of duplicates
dedup_none(us, seen) == us

RECURSIVE dedup_keep_first(_, _)
dedup_keep_first(us, seen) ==
    IF us = <<>> THEN <<>>
    ELSE IF Head(us) \in seen THEN dedup_keep_first(Tail(us), seen)
    ELSE <<Head(us)>> \o dedup_keep_first(Tail(us), seen \cup {Head(us)})

find_urls_from_xml(xml) == dedup_keep_first(sorted_by_priority(collect_urls(xml.identifiers)), {})


(***************************************************************************)
(* The environment of a fetch run: configs/origins.yaml, raw/oai/<RI> and  *)
(* the web servers behind the candidate URLs.                              *)
(***************************************************************************)
Origins ==
    <<[name |-> "UADY", allowed_mime |-> {"application/pdf"}, max_bytes_pdf |-> 8],
      [name |-> "UNAM", allowed_mime |-> {"application/pdf"}, max_bytes_pdf |-> 8]>>

RIs == {Origins[i].name : i \in DOMAIN Origins}

\* load_origin: the index of the repo whose name equals ri, case-insensitively
load_origin(ri) == CHOOSE j \in DOMAIN Origins : Lower(Origins[j].name) = Lower(ri)

\* the XML records a harvest can have left in raw/oai/<RI>
XmlDocs ==
    [d1 |-> [wellformed |-> TRUE,  identifiers |-> <<"https://repo.example/a.pdf">>],
     d2 |-> [wellformed |-> TRUE,  identifiers |-> <<"doi:10.1/abc", "https://repo.example/bitstream/1">>],
     d3 |-> [wellformed |-> FALSE, identifiers |-> <<>>],
     d4 |-> [wellformed |-> TRUE,  identifiers |-> <<"oai:repo.example:42", "">>],
     d5 |-> [wellformed |-> TRUE,  identifiers |-> <<"https://repo.example/big.pdf", "https://down.example/y.pdf",
                                                     "https://repo.example/bitstream/42/a.pdf",
                                                     "https://down.example/handle/1">>],
     d6 |-> [wellformed |-> TRUE,  identifiers |-> <<"https://down.example/x", "https://repo.example/bitstream/42/a.pdf",
                                                     "https://repo.example/bitstream/1",
                                                     "https://hdl.handle.net/1/2">>]]

DocIds == DOMAIN XmlDocs

\* sorted(xml_dir.glob("*.xml")): the files of the directory in sorted order,
\* each file holding another record
XmlDirs ==
    {dir \in UNION {[1..n -> DocIds] : n \in 0..MaxFiles} :
        \A i, j \in DOMAIN dir : dir[i] = dir[j] => i = j}

PdfA == <<<<37, 80, 68>>, <<70, 45, 1>>>>

PdfB == <<<<37, 80, 68, 70, 45>>, <<2>>>>

PdfBig == <<<<37, 80, 68, 70>>, <<45, 3, 3, 3>>, <<3, 3>>>>

HtmlPage == <<<<60, 104>>>>

\* a server that answers no request at all (every request times out)
Down(url) == StartsWith(url, "https://down.example/")

\* what a server answers for a URL: the declared type, the final URL after
\* redirects, the body as the chunks iter_content yields, and the anchors
\* of an HTML body
Web(url) ==
    CASE url = "https://repo.example/a.pdf" ->
            [ctype |-> "application/pdf", final |-> url, body |-> PdfA, hrefs |-> <<>>]
      [] url = "https://repo.example/bitstream/42/a.pdf" ->
            [ctype |-> "application/pdf; charset=binary", final |-> url, body |-> PdfA, hrefs |-> <<>>]
      [] url = "https://repo.example/bitstream/1" ->
            [ctype |-> "application/octet-stream", final |-> url, body |-> PdfB, hrefs |-> <<>>]
      [] url = "https://repo.example/big.pdf" ->
            [ctype |-> "application/pdf", final |-> url, body |-> PdfBig, hrefs |-> <<>>]
      [] url = "https://doi.org/10.1/abc" ->
            [ctype |-> "text/html; charset=utf-8", final |-> "https://repo.example/handle/42",
             body |-> HtmlPage, hrefs |-> <<" /bitstream/42/a.pdf ", "/about.html">>]
      [] url = "https://hdl.handle.net/1/2" ->
            [ctype |-> "text/html", final |-> "https://repo.example/handle/1",
             body |-> HtmlPage, hrefs |-> <<"/files/a.pdf?x=1", "/bitstream/1">>]
      [] OTHER ->
            [ctype |-> "text/html", final |-> url, body |-> HtmlPage, hrefs |-> <<>>]

\* the Content-Type value as the code reads it: (v or "").split(";")[0].strip()
header_ctype(v) == Strip(SplitHead(v, ";"))

RECURSIVE Flatten(_)
Flatten(chunks) == IF chunks = <<>> THEN <<>> ELSE Head(chunks) \o Flatten(Tail(chunks))

\* hashlib.sha256 over a byte string: collision-free on the bytes of the model
sha256(bytes) == <<"sha256", bytes>>


(***************************************************************************)
(* File naming: build_spool_name, sanitize_name, unique_path.              *)
(* The servers of the model send no Content-Disposition header and the     *)
(* URLs carry no query string, so base = Path(p.path).name and q_suffix    *)
(* is empty.                                                               *)
(***************************************************************************)
EXT_BY_CTYPE(c) ==
    CASE c = "application/pdf" -> ".pdf"
      [] c = "application/msword" -> ".doc"
      [] c = "application/vnd.openxmlformats-officedocument.wordprocessingml.document" -> ".docx"
      [] c = "application/vnd.ms-powerpoint" -> ".ppt"
      [] c = "application/vnd.openxmlformats-officedocument.presentationml.presentation" -> ".pptx"
      [] c = "text/plain" -> ".txt"
      [] OTHER -> NULL

\* index of the last occurrence of the one-character string c in s, 0 if none
LastIndexOf(s, c) ==
    LET I == {i \in 1..Len(s) : SubSeq(s, i, i) = c}
    IN  IF I = {} THEN 0 ELSE CHOOSE i \in I : \A j \in I : j <= i

\* os.path.splitext / Path.stem, Path.suffix of a file name
SplitExt(name) ==
    LET k == LastIndexOf(name, ".")
    IN  IF k <= 1 THEN <<name, "">>
        ELSE <<SubSeq(name, 1, k - 1), SubSeq(name, k, Len(name))>>

\* urlparse(url).path of an absolute URL without query or fragment
UrlPath(url) ==
    LET rest == SubSeq(url, LastIndexOf(SubSeq(url, 1, 8), "/") + 1, Len(url))
        I == {i \in 1..Len(rest) : SubSeq(rest, i, i) = "/"}
    IN  IF I = {} THEN ""
        ELSE SubSeq(rest, CHOOSE i \in I : \A j \in I : i <= j, Len(rest))

PathName(path) ==
    LET p == IF Len(path) > 1 /\ EndsWith(path, "/") THEN SubSeq(path, 1, Len(path) - 1) ELSE path
    IN  SubSeq(p, LastIndexOf(p, "/") + 1, Len(p))

NameChars == "ABCDEFGHIJKLMNOPQRSTUVWXYZabcdefghijklmnopqrstuvwxyz0123456789_.-"

RECURSIVE ReplaceUnsafe(_)
ReplaceUnsafe(s) ==
    IF Len(s) = 0 THEN ""
    ELSE (IF Contains(NameChars, SubSeq(s, 1, 1)) THEN SubSeq(s, 1, 1) ELSE "_")
         \o ReplaceUnsafe(Tail(s))

RECURSIVE StripDots(_)
StripDots(s) ==
    IF Len(s) > 0 /\ SubSeq(s, 1, 1) \in {".", "_"} THEN StripDots(Tail(s))
    ELSE IF Len(s) > 0 /\ SubSeq(s, Len(s), Len(s)) \in {".", "_"}
    THEN StripDots(SubSeq(s, 1, Len(s) - 1))
    ELSE s

max_len == 120

sanitize_name(name0) ==
    LET name == StripDots(ReplaceUnsafe(name0))
        se == SplitExt(name)
        cut == IF Len(name) > max_len
               THEN SubSeq(se[1], 1, max_len - Len(se[2]) - 1) \o "_" \o se[2]
               ELSE name
    IN  IF cut = "" THEN "download" ELSE cut

build_spool_name(url, content_type) ==
    LET pn == PathName(UrlPath(url))
        base == IF pn = "" THEN "download" ELSE pn
        se == SplitExt(base)
        ctype_norm == Lower(Strip(SplitHead(content_type, ";")))
        ext == IF EXT_BY_CTYPE(ctype_norm) # NULL THEN EXT_BY_CTYPE(ctype_norm)
               ELSE IF se[2] # "" THEN se[2] ELSE ".bin"
    IN  sanitize_name(se[1] \o ext)

Digits == "0123456789"

RECURSIVE ToStr(_)
ToStr(n) == IF n < 10 THEN SubSeq(Digits, n + 1, n + 1)
            ELSE ToStr(n \div 10) \o SubSeq(Digits, (n % 10) + 1, (n % 10) + 1)

\* unique_path over the files of spool/bin: name, else stem_1.ext, stem_2.ext, ...
unique_path(files, name) ==
    IF name \notin files THEN name
    ELSE LET se == SplitExt(name)
             cand(i) == se[1] \o "_" \o ToStr(i) \o se[2]
             i == CHOOSE k \in 1..(Cardinality(files) + 1) :
                     /\ cand(k) \notin files
                     /\ \A j \in 1..(k - 1) : cand(j) \in files
         IN  cand(i)

(***************************************************************************)
(* Type gate, sniff and landing-page scrape.                               *)
(***************************************************************************)
\* a gate whose extension fallback asks for an empty declared type
is_allowed_mime_empty_only(ctype, url, allowed) ==
    LET c == Lower(Strip(SplitHead(ctype, ";")))
        low == RSplitHead(RSplitHead(Lower(url), "?"), "#")
    IN  \/ \E m \in allowed : StartsWith(c, m)
        \/ c = "" /\ EndsWith(low, ".pdf") /\ \E a \in allowed : StartsWith(a, "application/pdf")

is_allowed_mime(ctype, url, allowed) ==
    LET c == Lower(Strip(SplitHead(ctype, ";")))
        low == RSplitHead(RSplitHead(Lower(url), "?"), "#")
    IN  \/ \E m \in allowed : StartsWith(c, m)
        \/ EndsWith(low, ".pdf") /\ \E a \in allowed : StartsWith(a, "application/pdf")

max_peek == 8192

PdfSignature == <<37, 80, 68, 70, 45>>

\* the blob sniff_is_pdf has read when the stream breaks after n chunks
\* (n = Len(chunks): the stream is read to its end or to max_peek bytes)
RECURSIVE Peek(_, _, _)
Peek(chunks, n, blob) ==
    IF chunks = <<>> \/ n = 0 \/ Head(chunks) = <<>> THEN blob
    ELSE IF Len(blob \o Head(chunks)) >= max_peek THEN blob \o Head(chunks)
    ELSE Peek(Tail(chunks), n - 1, blob \o Head(chunks))

sniff_is_pdf(chunks, n) == StartsWith(Peek(chunks, n, <<>>), PdfSignature)

\* urllib.parse.urljoin for an absolute, a root-relative or a relative reference
urljoin(base, ref) ==
    LET I == {i \in 9..Len(base) : SubSeq(base, i, i) = "/"}
        origin == IF I = {} THEN base
                  ELSE SubSeq(base, 1, (CHOOSE i \in I : \A j \in I : i <= j) - 1)
    IN  IF StartsWith(ref, "http://") \/ StartsWith(ref, "https://") THEN ref
        ELSE IF StartsWith(ref, "/") THEN origin \o ref
        ELSE IF I = {} THEN base \o "/" \o ref
        ELSE SubSeq(base, 1, LastIndexOf(base, "/")) \o ref

RECURSIVE StripAll(_)
StripAll(hs) ==
    IF hs = <<>> THEN <<>>
    ELSE IF Strip(Head(hs)) = "" THEN StripAll(Tail(hs))
    ELSE <<Strip(Head(hs))>> \o StripAll(Tail(hs))

\* a scrape that returns the first candidate href without looking at its
\* resolved form
RECURSIVE FirstLinkUnchecked(_, _)
FirstLinkUnchecked(final, hrefs) ==
    IF hrefs = <<>> THEN NULL
    ELSE LET h == Head(hrefs)
         IN  IF Contains(Lower(h), ".pdf") \/ Contains(Lower(h), "/bitstream/")
             THEN urljoin(final, h)
             ELSE FirstLinkUnchecked(final, Tail(hrefs))

RECURSIVE FirstLink(_, _)
FirstLink(final, hrefs) ==
    IF hrefs = <<>> THEN NULL
    ELSE LET h == Head(hrefs)
             cand == urljoin(final, h)
         IN  IF /\ Contains(Lower(h), ".pdf") \/ Contains(Lower(h), "/bitstream/")
                /\ EndsWith(Lower(cand), ".pdf") \/ Contains(Lower(cand), "/bitstream/")
             THEN cand
             ELSE FirstLink(final, Tail(hrefs))

\* scrape_pdf_link when the page request succeeds
scrape_pdf_link(url) == FirstLink(Web(url).final, StripAll(Web(url).hrefs))


(***************************************************************************)
(* The string functions above, tabulated once over the inputs of the model.*)
(***************************************************************************)
OriginOf == [ri \in RIs |-> Origins[load_origin(ri)]]

CandidatesOf == [d \in DocIds |-> find_urls_from_xml(XmlDocs[d])]

CandidateUrls == UNION {{CandidatesOf[d][i] : i \in DOMAIN CandidatesOf[d]} : d \in DocIds}

LinkOf == [u \in CandidateUrls |-> scrape_pdf_link(u)]

Urls == CandidateUrls \cup ({LinkOf[u] : u \in CandidateUrls} \ {NULL})

DeclaredType == [u \in Urls |-> header_ctype(Web(u).ctype)]

IsDown == [u \in Urls |-> Down(u)]

\* is_allowed_mime(ctype, url, allowed) with ctype the declared type of url
\* (the HEAD was answered) or "" (it was not)
Gate == [u \in Urls |-> [answered \in BOOLEAN |-> [ri \in RIs |->
            is_allowed_mime(IF answered THEN DeclaredType[u] ELSE "", u, OriginOf[ri].allowed_mime)]]]

SpoolName == [u \in Urls |-> build_spool_name(Web(u).final, DeclaredType[u])]

\* str(x) of the i-th file of raw/oai/<RI>
SourceOf == [ri \in RIs |-> [i \in 1..9 |-> "raw/oai/" \o ri \o "/" \o ToStr(i) \o ".xml"]]

(***************************************************************************)
(* resolve_fetch.main                                                      *)
(***************************************************************************)
FIdle == [ri |-> NULL]

EIdle == [ri |-> NULL]

\* the current (or last) call of download_stream: the GETs it has issued,
\* whether one of its attempts exceeded the ceiling, how its last attempt
\* ended, and whether the call is running, has returned or has raised
NetIdle == [url |-> NULL, gets |-> 0, oversize |-> FALSE, ended |-> "none", state |-> "none"]

Limits == {1, 2}

stop_after_attempt == 3

LogLine(ri, source, url, status) ==
    [ri |-> ri, source |-> source, url |-> url, status |-> status, sha256 |-> NULL,
     path |-> NULL, bytes |-> NULL, content_type |-> NULL, note |-> NULL]

SpoolPath(name) == "spool/bin/" \o name

Remove(files, name) == [n \in (DOMAIN files) \ {name} |-> files[n]]

\* a cleanup that was forgotten: the file stays
unlink_forgotten(files, name) == files

\* Path.unlink(missing_ok=True)
unlink(files, name) == Remove(files, name)

\* a write that loses the bytes
PutEmpty(files, name, bytes) ==
    [n \in (DOMAIN files) \cup {name} |-> IF n = name THEN <<>> ELSE files[n]]

Put(files, name, bytes) == [n \in (DOMAIN files) \cup {name} |-> IF n = name THEN bytes ELSE files[n]]

CurUrl == f.urls[f.ui]

\* the for-loop over urls is left (break, or no candidate remains):
\* "if not success: log no_download", then the next file
EndRecord(g, lg) ==
    /\ flog' = IF g.success THEN lg
               ELSE Append(lg, LogLine(g.ri, g.source, NULL, "no_download"))
    /\ f' = g
    /\ pc' = "f_loop"

\* the attempt on the current candidate ended without a break
NextCandidate(g, lg) ==
    IF g.ui < Len(g.urls)
    THEN /\ f' = [g EXCEPT !.ui = g.ui + 1]
         /\ flog' = lg
         /\ pc' = "f_head"
    ELSE EndRecord(g, lg)

\* "except Exception as e": one error line for the candidate, continue
Raised(g, what) ==
    NextCandidate(g, Append(flog, [LogLine(g.ri, g.source, g.urls[g.ui], "error")
                                     EXCEPT !.note = what]))

\* "Nada funciono para este URL"
Skipped(g) ==
    NextCandidate(g, Append(flog, [LogLine(g.ri, g.source, g.urls[g.ui], "skipped")
                                     EXCEPT !.note = g.ctype]))

\* an attempt of a tenacity-wrapped call raised: tenacity calls the function
\* again until stop_after_attempt, then raises RetryError to the caller
\* a wrapper that allows one attempt more
RetryOnceMore(g, n, again) ==
    IF n < stop_after_attempt + 1
    THEN /\ f' = g
         /\ pc' = again
         /\ flog' = flog
    ELSE Raised(g, "RetryError")

RetryOrRaise(g, n, again) ==
    IF n < stop_after_attempt
    THEN /\ f' = g
         /\ pc' = again
         /\ flog' = flog
    ELSE Raised(g, "RetryError")

\* the outcomes of one request to url: a down server never answers; another
\* server answers, unless one of the MaxFaults transient failures hits
Answers(url) ==
    IF IsDown[url] THEN {FALSE}
    ELSE IF faults < MaxFaults THEN {TRUE, FALSE} ELSE {TRUE}

Fault(url, answered) == faults' = IF answered \/ IsDown[url] THEN faults ELSE faults + 1

Breaks == IF faults < MaxFaults THEN {TRUE, FALSE} ELSE {FALSE}

\* main up to the for-loop: load_origin, open_log, the sorted file list
FetchStart(ri, limit, dir) ==
    /\ pc = "f_start"
    /\ UNCHANGED <<flog, spool, corpus, manifest, e, tika, faults, net>>
    /\ IF dir = <<>>
       THEN /\ exit' = "exit1"
            /\ pc' = "done"
            /\ f' = f
       ELSE /\ pc' = "f_loop"
            /\ exit' = "none"
            /\ f' = [ri |-> OriginOf[ri].name,
                     allowed |-> OriginOf[ri].allowed_mime,
                     max_bytes |-> OriginOf[ri].max_bytes_pdf,
                     limit |-> limit, files |-> dir, fi |-> 0, source |-> NULL,
                     picked |-> 0, seen |-> {},
                     urls |-> <<>>, ui |-> 0, success |-> FALSE, ctype |-> "",
                     target |-> NULL, attempt |-> 0, path |-> NULL, dctype |-> "",
                     total |-> 0, h |-> <<>>, ci |-> 0]

\* top of "for x in files": limit check, read and resolve the next record
FetchLoop ==
    /\ pc = "f_loop"
    /\ UNCHANGED <<spool, corpus, manifest, e, tika, net, faults>>
    /\ IF f.fi = Len(f.files) \/ f.picked >= f.limit
       THEN /\ pc' = "done"
            /\ exit' = "ok"
            /\ f' = f
            /\ flog' = flog
       ELSE LET i == f.fi + 1
                xml == XmlDocs[f.files[i]]
                urls == CandidatesOf[f.files[i]]
            IN  IF ~xml.wellformed
                THEN \* etree.fromstring raises XMLSyntaxError outside any try
                     /\ pc' = "done"
                     /\ exit' = "exception"
                     /\ f' = [f EXCEPT !.fi = i, !.source = SourceOf[f.ri][i]]
                     /\ flog' = flog
                ELSE IF urls = <<>>
                THEN /\ flog' = Append(flog, LogLine(f.ri, SourceOf[f.ri][i], NULL, "no_url"))
                     /\ f' = [f EXCEPT !.fi = i, !.source = SourceOf[f.ri][i]]
                     /\ UNCHANGED <<pc, exit>>
                ELSE /\ f' = [f EXCEPT !.fi = i, !.source = SourceOf[f.ri][i],
                                       !.urls = urls, !.ui = 1, !.success = FALSE]
                     /\ pc' = "f_head"
                     /\ UNCHANGED <<flog, exit>>

\* res = download_stream(session, url, max_bytes) is called
StartDownload(g, url) ==
    /\ f' = [g EXCEPT !.target = url, !.attempt = 0]
    /\ net' = [url |-> url, gets |-> 0, oversize |-> FALSE, ended |-> "none", state |-> "running"]
    /\ pc' = "f_dl_get"
    /\ flog' = flog

\* a HEAD whose failure is left to the outer except: an error line
FetchHeadAborts ==
    /\ pc = "f_head"
    /\ UNCHANGED <<spool, corpus, manifest, e, tika, exit>>
    /\ \E answered \in Answers(CurUrl) :
          LET g == [f EXCEPT !.ctype = DeclaredType[CurUrl]]
          IN  /\ Fault(CurUrl, answered)
              /\ IF ~answered
                 THEN /\ Raised(f, "ConnectionError")
                      /\ net' = net
                 ELSE IF Gate[CurUrl][answered][f.ri]
                 THEN StartDownload(g, CurUrl)
                 ELSE /\ f' = [g EXCEPT !.attempt = 0]
                      /\ pc' = "f_sniff_get"
                      /\ UNCHANGED <<flog, net>>

\* 1) HEAD; the type gate decides between direct download and sniff
FetchHead ==
    /\ pc = "f_head"
    /\ UNCHANGED <<spool, corpus, manifest, e, tika, exit>>
    /\ \E answered \in Answers(CurUrl) :
          LET ctype == IF answered THEN DeclaredType[CurUrl] ELSE ""
              g == [f EXCEPT !.ctype = ctype]
          IN  /\ Fault(CurUrl, answered)
              /\ IF Gate[CurUrl][answered][f.ri]
                 THEN StartDownload(g, CurUrl)
                 ELSE /\ f' = [g EXCEPT !.attempt = 0]
                      /\ pc' = "f_sniff_get"
                      /\ UNCHANGED <<flog, net>>

\* seen_hashes that is never consulted: every completed download is "ok"
in_seen_hashes_never(sha, seen) == FALSE

\* res["sha256"] in seen_hashes
in_seen_hashes(sha, seen) == sha \in seen

\* a classification that counts a duplicate as a download of the run
ClassifyCountsDuplicates(g) ==
    LET sha == sha256(g.h)
        line == LogLine(g.ri, g.source, g.target, "ok")
    IN  IF in_seen_hashes(sha, g.seen)
        THEN /\ spool' = unlink(spool, g.path)
             /\ EndRecord([g EXCEPT !.picked = g.picked + 1],
                          Append(flog, [LogLine(g.ri, g.source, g.target, "duplicate")
                                           EXCEPT !.sha256 = sha]))
        ELSE /\ spool' = spool
             /\ EndRecord([g EXCEPT !.seen = g.seen \cup {sha}, !.picked = g.picked + 1,
                                    !.success = TRUE],
                          Append(flog, [line EXCEPT !.sha256 = sha, !.path = SpoolPath(g.path),
                                                    !.bytes = g.total, !.content_type = g.dctype]))

\* download_stream returned: dedup by sha256 against seen_hashes, log, break
Classify(g) ==
    LET sha == sha256(g.h)
        line == LogLine(g.ri, g.source, g.target, "ok")
    IN  IF in_seen_hashes(sha, g.seen)
        THEN /\ spool' = unlink(spool, g.path)
             /\ EndRecord(g, Append(flog, [LogLine(g.ri, g.source, g.target, "duplicate")
                                              EXCEPT !.sha256 = sha]))
        ELSE /\ spool' = spool
             /\ EndRecord([g EXCEPT !.seen = g.seen \cup {sha}, !.picked = g.picked + 1,
                                    !.success = TRUE],
                          Append(flog, [line EXCEPT !.sha256 = sha, !.path = SpoolPath(g.path),
                                                    !.bytes = g.total, !.content_type = g.dctype]))

\* download_stream, one attempt: the GET, raise_for_status, the file is opened
DlGet ==
    /\ pc = "f_dl_get"
    /\ UNCHANGED <<corpus, manifest, e, tika, exit>>
    /\ \E answered \in Answers(f.target) :
          LET n == f.attempt + 1
              path == unique_path(DOMAIN spool, SpoolName[f.target])
          IN  /\ Fault(f.target, answered)
              /\ IF ~answered
                 THEN /\ RetryOrRaise([f EXCEPT !.attempt = n], n, "f_dl_get")
                      /\ net' = [net EXCEPT !.gets = n, !.ended = "get_failed",
                                            !.state = IF n < stop_after_attempt
                                                      THEN "running" ELSE "raised"]
                      /\ spool' = spool
                 ELSE /\ spool' = Put(spool, path, <<>>)
                      /\ f' = [f EXCEPT !.attempt = n, !.path = path,
                                        !.dctype = DeclaredType[f.target],
                                        !.total = 0, !.h = <<>>, !.ci = 1]
                      /\ net' = [net EXCEPT !.gets = n, !.ended = "none"]
                      /\ pc' = "f_dl_stream"
                      /\ flog' = flog

\* download_stream, one turn of "for chunk in resp.iter_content(8192)"
DlChunk ==
    /\ pc = "f_dl_stream"
    /\ UNCHANGED <<corpus, manifest, e, tika, exit>>
    /\ \E broken \in Breaks :
          LET body == Web(f.target).body
              last == f.attempt >= stop_after_attempt
              chunk == body[f.ci]
              total == f.total + Len(chunk)
          IN  /\ faults' = faults + B2N(broken)
              /\ IF broken
                 THEN \* the connection breaks: the exception leaves the with-block
                      /\ RetryOrRaise(f, f.attempt, "f_dl_get")
                      /\ net' = [net EXCEPT !.ended = "broken",
                                            !.state = IF last THEN "raised" ELSE "running"]
                      /\ spool' = spool
                 ELSE IF f.ci > Len(body) \/ chunk = <<>>
                 THEN /\ Classify(f)
                      /\ net' = [net EXCEPT !.ended = "returned", !.state = "returned"]
                 ELSE IF total > f.max_bytes
                 THEN \* resp.close(); path.unlink(missing_ok=True); raise RuntimeError
                      /\ spool' = unlink(spool, f.path)
                      /\ RetryOrRaise([f EXCEPT !.total = total], f.attempt, "f_dl_get")
                      /\ net' = [net EXCEPT !.oversize = TRUE, !.ended = "oversize",
                                            !.state = IF last THEN "raised" ELSE "running"]
                 ELSE /\ spool' = Put(spool, f.path, spool[f.path] \o chunk)
                      /\ f' = [f EXCEPT !.total = total, !.h = f.h \o chunk, !.ci = f.ci + 1]
                      /\ UNCHANGED <<pc, flog, net>>

\* 2) get_stream (one attempt), sniff_is_pdf over the chunks read before the
\* stream ends or breaks, and the HTML test of step 3
SniffGet ==
    /\ pc = "f_sniff_get"
    /\ UNCHANGED <<spool, corpus, manifest, e, tika, exit>>
    /\ \E answered \in Answers(CurUrl), k \in 0..Len(Web(CurUrl).body) :
          LET n == f.attempt + 1
              g == [f EXCEPT !.attempt = n]
              resp == Web(CurUrl)
              cut == k < Len(resp.body)
          IN  /\ cut => answered /\ faults < MaxFaults
              /\ faults' = IF cut THEN faults + 1
                           ELSE IF answered \/ IsDown[CurUrl] THEN faults ELSE faults + 1
              /\ IF ~answered
                 THEN /\ RetryOrRaise(g, n, "f_sniff_get")
                      /\ net' = net
                 ELSE IF sniff_is_pdf(resp.body, k)
                         /\ \E a \in f.allowed : StartsWith(a, "application/pdf")
                 THEN StartDownload(g, CurUrl)
                 ELSE IF Contains(f.ctype, "text/html") \/ StartsWith(resp.ctype, "text/html")
                 THEN /\ pc' = "f_scrape"
                      /\ f' = g
                      /\ UNCHANGED <<flog, net>>
                 ELSE /\ Skipped(g)
                      /\ net' = net

\* 3) scrape_pdf_link: one GET of the landing page, never retried
Scrape ==
    /\ pc = "f_scrape"
    /\ UNCHANGED <<spool, corpus, manifest, e, tika, exit, net>>
    /\ \E answered \in Answers(CurUrl) :
          LET pdf_link == IF answered THEN LinkOf[CurUrl] ELSE NULL
          IN  /\ Fault(CurUrl, answered)
              /\ IF pdf_link = NULL
                 THEN Skipped(f)
                 ELSE /\ f' = [f EXCEPT !.target = pdf_link]
                      /\ pc' = "f_head2"
                      /\ flog' = flog

\* a followed link that the gate rejects is taken for another landing page
Head2ScrapesAgain ==
    /\ pc = "f_head2"
    /\ UNCHANGED <<spool, corpus, manifest, e, tika, exit>>
    /\ \E answered \in Answers(f.target) :
          /\ Fault(f.target, answered)
          /\ IF Gate[f.target][answered][f.ri]
             THEN StartDownload(f, f.target)
             ELSE /\ pc' = "f_scrape"
                  /\ UNCHANGED <<f, flog, net>>

\* the followed link: a fresh HEAD and the type gate
Head2 ==
    /\ pc = "f_head2"
    /\ UNCHANGED <<spool, corpus, manifest, e, tika, exit>>
    /\ \E answered \in Answers(f.target) :
          LET ctype2 == IF answered THEN DeclaredType[f.target] ELSE ""
          IN  /\ Fault(f.target, answered)
              /\ IF Gate[f.target][answered][f.ri]
                 THEN StartDownload(f, f.target)
                 ELSE /\ Skipped(f)
                      /\ net' = net

NextFetch ==
    \/ \E ri \in RIs, limit \in Limits, dir \in XmlDirs : FetchStart(ri, limit, dir)
    \/ FetchLoop
    \/ FetchHead
    \/ DlGet
    \/ DlChunk
    \/ SniffGet
    \/ Scrape
    \/ Head2

\* a fetch run starts on an empty spool and an empty fetch.log
InitFetch ==
    /\ pc = "f_start"
    /\ exit = "none"
    /\ flog = <<>>
    /\ spool = <<>>
    /\ f = FIdle
    /\ net = NetIdle
    /\ corpus = <<>>
    /\ manifest = [ri \in RIs |-> <<>>]
    /\ e = EIdle
    /\ tika = <<>>
    /\ faults = 0

SpecFetch == InitFetch /\ [][NextFetch]_vars

(***************************************************************************)
(* Properties of a fetch run.                                              *)
(***************************************************************************)
OkLines == {i \in DOMAIN flog : flog[i].status = "ok"}

DuplicateLines == {i \in DOMAIN flog : flog[i].status = "duplicate"}

AttemptStatus == {"ok", "duplicate", "skipped", "error"}

\* the file a log line's path names, if it is in the spool
FileAt(path) == {n \in DOMAIN spool : SpoolPath(n) = path}

\* C1, state part: no two ok lines of the run carry the same sha256; the
\* file of every ok line is in the spool and holds the bytes of that digest;
\* every duplicate line repeats the digest of an earlier ok line.
C1_DedupState ==
    /\ \A i, j \in OkLines : flog[i].sha256 = flog[j].sha256 => i = j
    /\ \A i \in OkLines : \E n \in FileAt(flog[i].path) : sha256(spool[n]) = flog[i].sha256
    /\ \A j \in DuplicateLines : \E i \in OkLines : i < j /\ flog[i].sha256 = flog[j].sha256

\* C1, step part: the step that logs a duplicate deletes exactly the file the
\* download has just written, and that file belongs to no ok line.
C1_DuplicateStep ==
    (Len(flog') > Len(flog) /\ flog'[Len(flog) + 1].status = "duplicate")
        => /\ f.path \in DOMAIN spool
           /\ sha256(spool[f.path]) = flog'[Len(flog) + 1].sha256
           /\ spool' = Remove(spool, f.path)
           /\ \A i \in OkLines : flog[i].path # SpoolPath(f.path)

\* C1: within one fetch run, of two downloads that complete with the same
\* bytes the first is logged ok and its file stays in the spool, the second
\* is logged duplicate and only its own just-written file is deleted; no two
\* ok lines carry the same sha256.
C1_Dedup == [](C1_DedupState) /\ [][C1_DuplicateStep]_vars

\* C1 witness: an ok line, a later duplicate line with its digest, and the
\* file of the ok line still in the spool.
C1_Witness ==
    \E i \in OkLines, j \in DuplicateLines :
        /\ i < j
        /\ flog[i].sha256 = flog[j].sha256
        /\ FileAt(flog[i].path) # {}

\* the index, in the directory of the run, of the record a log line is about
RecordOf(line) == CHOOSE i \in DOMAIN f.files : SourceOf[f.ri][i] = line.source

\* the lines logged for url while the record of line k was processed
AttemptLines(k, url) ==
    {i \in 1..(k - 1) : /\ flog[i].source = flog[k].source
                        /\ flog[i].url = url
                        /\ flog[i].status \in AttemptStatus}

\* C2: whenever a no_download line is written for a record, each candidate
\* URL of that record has its own attempt line in the fetch log and none of
\* them is ok.
C2_NoDownloadAfterAll ==
    \A k \in DOMAIN flog :
        flog[k].status = "no_download" =>
            LET urls == CandidatesOf[f.files[RecordOf(flog[k])]]
            IN  \A u \in DOMAIN urls :
                    /\ AttemptLines(k, urls[u]) # {}
                    /\ \A i \in AttemptLines(k, urls[u]) : flog[i].status # "ok"

\* the records of the run that lxml cannot parse
Unparseable == {i \in DOMAIN f.files : ~XmlDocs[f.files[i]].wellformed}

\* C4: a record whose XML cannot be parsed is skipped and logged, and every
\* record after it is still processed: the run ends only when the files are
\* exhausted or the limit is reached, never by the parse failure.
C4_ParseFailureSkipped ==
    (pc = "done" /\ exit # "exit1") =>
        /\ exit = "ok"
        /\ f.fi = Len(f.files) \/ f.picked >= f.limit
        /\ \A i \in Unparseable :
               i <= f.fi => \E k \in DOMAIN flog : flog[k].source = SourceOf[f.ri][i]

\* C5: a download_stream call that has exceeded the byte ceiling issues no
\* further GET: exactly one GET is issued by that call, the partial file is
\* removed and, the call having ended, the URL is logged error.
C5_OversizeNotRetried ==
    net.oversize =>
        /\ net.gets = 1
        /\ f.path \notin DOMAIN spool
        /\ net.state = "raised" /\ flog # <<>> /\ flog[Len(flog)].status # "no_download"
               => flog[Len(flog)].status = "error"

\* C6, state part: no file of the spool ever holds more than max_bytes, and
\* between an attempt's abort for the ceiling and the next attempt (or the
\* end of the call) the file it was writing does not exist.
C6_CeilingState ==
    /\ pc \notin {"f_start", "done"} => \A n \in DOMAIN spool : Len(spool[n]) <= f.max_bytes
    /\ (net.ended = "oversize" /\ pc \notin {"f_start", "done"}) => f.path \notin DOMAIN spool

\* C6, step part: a chunk is written only if the running total with it stays
\* within max_bytes, and the step that exceeds the ceiling removes the file.
C6_CeilingStep ==
    pc = "f_dl_stream" =>
        /\ (f.path \in DOMAIN spool' /\ spool'[f.path] # spool[f.path])
               => Len(spool'[f.path]) = f'.total /\ f'.total <= f.max_bytes
        /\ (net'.ended = "oversize") => f.path \notin DOMAIN spool'

\* C6: at every point of a streaming download the file being written holds
\* at most max_bytes bytes, and once download_stream has aborted for the
\* ceiling the file it was writing does not exist.
C6_ByteCeiling == [](C6_CeilingState) /\ [][C6_CeilingStep]_vars

\* C6 witness: an attempt has been aborted for the ceiling after the file had
\* grown to exactly max_bytes, and the file is gone.
C6_Witness ==
    /\ net.ended = "oversize"
    /\ pc = "f_dl_get"
    /\ f.total > f.max_bytes
    /\ Len(f.h) = f.max_bytes
    /\ f.path \notin DOMAIN spool

(***************************************************************************)
(* extract_text.py: normalize_text and quality_metrics.  A text is a       *)
(* sequence of Unicode code points.                                        *)
(***************************************************************************)
TAB == 9

LF == 10

CR == 13

SPACE == 32

\* canonical composition of a starter and the combining mark that follows it
\* (the pairs over the letters of the model): e + U+0301 = U+00E9, ...
Composed(base, mark) ==
    CASE base = 101 /\ mark = 769 -> 233
      [] base = 97 /\ mark = 769 -> 225
      [] OTHER -> 0

\* unicodedata.normalize("NFC", s)
RECURSIVE NFC(_)
NFC(s) ==
    IF Len(s) < 2 THEN s
    ELSE IF Composed(s[1], s[2]) # 0 THEN NFC(<<Composed(s[1], s[2])>> \o SubSeq(s, 3, Len(s)))
    ELSE <<s[1]>> \o NFC(Tail(s))

\* s.replace("\r\n", "\n").replace("\r", "\n")
RECURSIVE UnifyNewlines(_)
UnifyNewlines(s) ==
    IF s = <<>> THEN <<>>
    ELSE IF Len(s) >= 2 /\ s[1] = CR /\ s[2] = LF THEN <<LF>> \o UnifyNewlines(SubSeq(s, 3, Len(s)))
    ELSE IF s[1] = CR THEN <<LF>> \o UnifyNewlines(Tail(s))
    ELSE <<s[1]>> \o UnifyNewlines(Tail(s))

\* the class [\x09\x0A\x20-\x7E\u0080-\uFFFF] of characters that are kept
Printable(c) == c = 9 \/ c = 10 \/ (32 <= c /\ c <= 126) \/ (128 <= c /\ c <= 65535)

StripControl(s) == SelectSeq(s, Printable)

\* re.sub(r"\n{3,}", "\n\n", s) and re.sub(r"[ \t]{3,}", "  ", s): a maximal
\* run of at least three characters of the class becomes the two given ones
RECURSIVE RunLength(_, _)
RunLength(s, class) == IF s = <<>> \/ s[1] \notin class THEN 0 ELSE 1 + RunLength(Tail(s), class)

RECURSIVE CollapseRuns(_, _, _)
CollapseRuns(s, class, two) ==
    IF s = <<>> THEN <<>>
    ELSE LET n == RunLength(s, class)
         IN  IF n >= 3 THEN two \o CollapseRuns(SubSeq(s, n + 1, Len(s)), class, two)
             ELSE IF n >= 1 THEN SubSeq(s, 1, n) \o CollapseRuns(SubSeq(s, n + 1, Len(s)), class, two)
             ELSE <<s[1]>> \o CollapseRuns(Tail(s), class, two)

\* str.isspace of the characters that survive StripControl
IsSpace(c) == c \in {9, 10, 32, 133, 160}

\* no trimming at all
StripNothing(s) == s

RECURSIVE StripText(_)
StripText(s) ==
    IF s # <<>> /\ IsSpace(s[1]) THEN StripText(Tail(s))
    ELSE IF s # <<>> /\ IsSpace(s[Len(s)]) THEN StripText(SubSeq(s, 1, Len(s) - 1))
    ELSE s

normalize_text(s) ==
    StripText(CollapseRuns(CollapseRuns(StripControl(UnifyNewlines(NFC(s))),
                                        {LF}, <<LF, LF>>),
                           {SPACE, TAB}, <<SPACE, SPACE>>))

\* str.isalpha and the \w of re (isalnum or "_"), for code points below 256
\* and the combining marks
IsAlpha(c) ==
    \/ (65 <= c /\ c <= 90) \/ (97 <= c /\ c <= 122)
    \/ c \in {170, 181, 186}
    \/ (192 <= c /\ c <= 255 /\ c \notin {215, 247})

IsWord(c) == IsAlpha(c) \/ (48 <= c /\ c <= 57) \/ c = 95 \/ c \in {178, 179, 185, 188, 189, 190}

\* len(re.findall(r"\b\w+\b", text)): the maximal runs of word characters
RECURSIVE CountTokens(_, _)
CountTokens(s, inword) ==
    IF s = <<>> THEN 0
    ELSE IF IsWord(s[1]) THEN (IF inword THEN 0 ELSE 1) + CountTokens(Tail(s), TRUE)
    ELSE CountTokens(Tail(s), FALSE)

\* round(a / b) for a, b >= 0, b > 0 (no quotient of the model is a tie)
RoundDiv(a, b) == (2 * a + b) \div (2 * b)

Min(a, b) == IF a < b THEN a ELSE b

\* quality_metrics: alpha_ratio in 1/10000 (round(.., 4)), score in 1/1000
\* (round(.., 3)) of 0.6 * letters/n_chars + 0.4 * min(1, tokens/500)
quality_metrics(text) ==
    LET n_chars == Len(text)
        letters == Len(SelectSeq(text, IsAlpha))
        tokens == CountTokens(text, FALSE)
        t == Min(tokens, 500)
    IN  [n_chars |-> n_chars,
         tokens |-> tokens,
         alpha_ratio |-> IF n_chars = 0 THEN 0 ELSE RoundDiv(10000 * letters, n_chars),
         text_quality_score |->
             Min(1000, IF n_chars = 0 THEN RoundDiv(4 * t, 5)
                       ELSE RoundDiv(3000 * letters + 4 * t * n_chars, 5 * n_chars))]

\* a gate that asks for both shortfalls
should_apply_ocr_both(metrics, min_tokens, min_alpha_ratio) ==
    metrics.tokens < min_tokens /\ metrics.alpha_ratio < min_alpha_ratio

should_apply_ocr(metrics, min_tokens, min_alpha_ratio) ==
    metrics.tokens < min_tokens \/ metrics.alpha_ratio < min_alpha_ratio

\* "if (qm2 tokens > qm tokens) or (qm2 score > qm score)"
\* an adoption that also takes ties
ocr_improves_or_ties(qm, qm2) ==
    qm2.tokens >= qm.tokens \/ qm2.text_quality_score >= qm.text_quality_score

ocr_improves(qm, qm2) ==
    qm2.tokens > qm.tokens \/ qm2.text_quality_score > qm.text_quality_score

(***************************************************************************)
(* extract_text.main                                                       *)
(***************************************************************************)
\* load_fetch_log: spool path -> the last ok line of fetch.log with that path
\* (main writes every ok line with its sha256, so "or ''" never applies)
load_fetch_log(log) ==
    LET ok == {i \in DOMAIN log : log[i].status = "ok" /\ log[i].path \notin {NULL, ""}}
        last(p) == CHOOSE i \in ok : log[i].path = p /\ \A j \in ok : log[j].path = p => j <= i
    IN  [p \in {log[i].path : i \in ok} |->
            [path |-> p,
             sha256 |-> log[last(p)].sha256,
             url |-> log[last(p)].url,
             content_type |-> log[last(p)].content_type,
             bytes |-> log[last(p)].bytes,
             ri |-> log[last(p)].ri]]

\* hashlib.sha256 over the bytes of the file
compute_sha256(bytes) == sha256(bytes)

\* the order of str, by code point and a proper prefix first, over the
\* characters sanitize_name leaves in a file name
CharOrder == "-.0123456789ABCDEFGHIJKLMNOPQRSTUVWXYZ_abcdefghijklmnopqrstuvwxyz"

Ord(c) == CHOOSE i \in 1..Len(CharOrder) : SubSeq(CharOrder, i, i) = c

RECURSIVE StrLess(_, _)
StrLess(a, b) ==
    IF Len(b) = 0 THEN FALSE
    ELSE IF Len(a) = 0 THEN TRUE
    ELSE IF SubSeq(a, 1, 1) = SubSeq(b, 1, 1) THEN StrLess(Tail(a), Tail(b))
    ELSE Ord(SubSeq(a, 1, 1)) < Ord(SubSeq(b, 1, 1))

\* sorted(SPOOL.glob("*"))
RECURSIVE Sorted(_)
Sorted(names) ==
    IF names = {} THEN <<>>
    ELSE LET m == CHOOSE n \in names : \A o \in names \ {n} : StrLess(n, o)
         IN  <<m>> \o Sorted(names \ {m})

\* the texts the extraction service returns in the model:
\* "", "aa", " a\r\na " and "1 a"
TikaTexts ==
    {<<>>, <<97, 97>>, <<32, 97, 13, 10, 97, 32>>, <<49, 32, 97>>}

\* what requests.put does: it returns a response (200 with a text, or an
\* error status such as 415, 422, 500), or it raises (timeout, connection)
Responses ==
    {[raised |-> FALSE, code |-> 200, text |-> t] : t \in TikaTexts}
        \cup {[raised |-> FALSE, code |-> 500, text |-> <<>>],
              [raised |-> TRUE, code |-> 0, text |-> <<>>]}

\* tika_extract_text: the text of a 200 response, "" otherwise
tika_extract_text(resp) == IF resp.code = 200 THEN resp.text ELSE <<>>

\* a sanity check whose failure is ignored
version_check_ignored(up) == FALSE

\* the Tika sanity check fails: main prints and calls sys.exit(1)
version_check_fails(up) == ~up

CurPdf == e.files[e.i]

\* meta = fetch_idx.get(str(pdf)): HasMeta says whether it is not None
HasMeta == SpoolPath(CurPdf) \in DOMAIN e.idx

CurMeta == e.idx[SpoolPath(CurPdf)]

\* sha = meta.sha256 if (meta and meta.sha256) else compute_sha256(pdf)
CurSha ==
    IF HasMeta /\ CurMeta.sha256 # <<>> THEN CurMeta.sha256
    ELSE compute_sha256(spool[CurPdf])

\* rec, without extracted_at and tika_url
ManifestRecord(ocr_applied, ocr_strategy, qm) ==
    [ri |-> e.ri, sha256 |-> CurSha, source_spool_path |-> SpoolPath(CurPdf),
     source_url |-> IF HasMeta THEN CurMeta.url ELSE NULL,
     content_type |-> IF HasMeta THEN CurMeta.content_type ELSE NULL,
     bytes |-> IF HasMeta THEN CurMeta.bytes ELSE Len(spool[CurPdf]),
     ocr_applied |-> ocr_applied, ocr_strategy |-> ocr_strategy, metrics |-> qm]

\* "Guardado", "Manifiesto", "Borrado del spool", and the next file or the end
Persist(text_norm, qm, ocr_applied, ocr_strategy) ==
    /\ corpus' = Put(corpus, <<e.ri, CurSha>>, text_norm)
    /\ manifest' = [manifest EXCEPT ![e.ri] =
                       Append(@, ManifestRecord(ocr_applied, ocr_strategy, qm))]
    /\ spool' = IF e.keep_spool THEN spool ELSE unlink(spool, CurPdf)
    /\ IF e.i = Len(e.files)
       THEN /\ pc' = "done"
            /\ exit' = "ok"
            /\ e' = e
       ELSE /\ pc' = "e_pass1"
            /\ exit' = exit
            /\ e' = [e EXCEPT !.i = e.i + 1]

\* main up to the for-loop: load_origin, load_fetch_log, the Tika sanity
\* check, the listing of the spool
ExtractStart(ri, up, limit, keep_spool, min_tokens, min_alpha) ==
    /\ pc = "e_start"
    /\ UNCHANGED <<flog, spool, f, net, corpus, manifest, tika, faults>>
    /\ LET all == Sorted(DOMAIN spool)
           files == IF limit > 0 THEN SubSeq(all, 1, Min(limit, Len(all))) ELSE all
           loc == [ri |-> ri, up |-> up, limit |-> limit, keep_spool |-> keep_spool,
                   min_tokens |-> min_tokens, min_alpha |-> min_alpha,
                   idx |-> load_fetch_log(flog), files |-> files, i |-> 1,
                   text |-> <<>>, qm |-> quality_metrics(<<>>),
                   start |-> [spool |-> spool, corpus |-> corpus, manifest |-> manifest]]
       IN  /\ e' = loc
           /\ IF version_check_fails(up)
              THEN pc' = "done" /\ exit' = "exit1"
              ELSE IF files = <<>>
              THEN pc' = "done" /\ exit' = "exit0"
              ELSE pc' = "e_pass1" /\ exit' = "none"

\* Pass 1: tika_extract_text without OCR, normalize_text, quality_metrics,
\* the gate; without a second pass the result is persisted
Pass1 ==
    /\ pc = "e_pass1"
    /\ UNCHANGED <<flog, f, net, faults>>
    /\ \E resp \in Responses :
          LET text_norm == normalize_text(tika_extract_text(resp))
              qm == quality_metrics(text_norm)
          IN  /\ tika' = Append(tika, [i |-> e.i, path |-> SpoolPath(CurPdf), strategy |-> "no_ocr",
                                       raised |-> resp.raised, code |-> resp.code, text |-> text_norm, qm |-> qm])
              /\ IF resp.raised
                 THEN \* the exception of requests.put leaves main
                      /\ pc' = "done"
                      /\ exit' = "exception"
                      /\ UNCHANGED <<e, corpus, manifest, spool>>
                 ELSE IF should_apply_ocr(qm, e.min_tokens, e.min_alpha)
                 THEN /\ pc' = "e_pass2"
                      /\ e' = [e EXCEPT !.text = text_norm, !.qm = qm]
                      /\ UNCHANGED <<exit, corpus, manifest, spool>>
                 ELSE Persist(text_norm, qm, FALSE, "no_ocr")

\* Pass 2: tika_extract_text with OCR; its result is kept if it improves
Pass2 ==
    /\ pc = "e_pass2"
    /\ UNCHANGED <<flog, f, net, faults>>
    /\ \E resp \in Responses :
          LET text2_norm == normalize_text(tika_extract_text(resp))
              qm2 == quality_metrics(text2_norm)
          IN  /\ tika' = Append(tika, [i |-> e.i, path |-> SpoolPath(CurPdf), strategy |-> "ocr_and_text",
                                       raised |-> resp.raised, code |-> resp.code, text |-> text2_norm, qm |-> qm2])
              /\ IF resp.raised
                 THEN /\ pc' = "done"
                      /\ exit' = "exception"
                      /\ UNCHANGED <<e, corpus, manifest, spool>>
                 ELSE IF ocr_improves(e.qm, qm2)
                 THEN Persist(text2_norm, qm2, TRUE, "ocr_and_text")
                 ELSE Persist(e.text, e.qm, FALSE, "no_ocr")

\* --min-tokens and --min-alpha of the runs of the model (alpha in 1/10000)
MinTokensArg == 2

MinAlphaArg == 5000

\* what fetch runs leave in spool/bin and fetch.log, a file per run: UADY
\* on a.pdf, UADY on a.pdf again (a fresh seen_hashes, unique_path), UNAM
\* on bitstream/1, and UADY on big.pdf with a stream broken after the first
\* chunk (the partial file stays and no ok line names it). The last one is
\* what a later fetch of a.pdf leaves when its stream breaks after the first
\* chunk and the first a.pdf has been extracted and deleted in between: the
\* partial file has the path of the old ok line. An extraction run starts
\* on any of these files with different names: fetch runs that have not
\* happened, and extraction runs with --limit, leave the others out.
OkLine(ri, url, name, bytes, content_type) ==
    [LogLine(ri, SourceOf[ri][1], url, "ok")
        EXCEPT !.sha256 = sha256(bytes), !.path = SpoolPath(name),
               !.bytes = Len(bytes), !.content_type = content_type]

Harvested ==
    <<[name |-> "a.pdf", bytes |-> Flatten(PdfA),
       log |-> <<OkLine("UADY", "https://repo.example/a.pdf", "a.pdf",
                        Flatten(PdfA), "application/pdf")>>],
      [name |-> "a_1.pdf", bytes |-> Flatten(PdfA),
       log |-> <<OkLine("UADY", "https://repo.example/a.pdf", "a_1.pdf",
                        Flatten(PdfA), "application/pdf")>>],
      [name |-> "1.bin", bytes |-> Flatten(PdfB),
       log |-> <<OkLine("UNAM", "https://repo.example/bitstream/1", "1.bin",
                        Flatten(PdfB), "application/octet-stream")>>],
      [name |-> "big.pdf", bytes |-> Head(PdfBig),
       log |-> <<[LogLine("UADY", SourceOf["UADY"][1], "https://repo.example/big.pdf", "error")
                     EXCEPT !.note = "RetryError"]>>],
      [name |-> "a.pdf", bytes |-> Head(PdfA),
       log |-> <<OkLine("UADY", "https://repo.example/a.pdf", "a.pdf",
                        Flatten(PdfA), "application/pdf")>>]>>

RECURSIVE LogOf(_, _)
LogOf(S, k) ==
    IF k > Len(Harvested) THEN <<>>
    ELSE (IF k \in S THEN Harvested[k].log ELSE <<>>) \o LogOf(S, k + 1)

SpoolOf(S) ==
    [n \in {Harvested[k].name : k \in S} |->
        Harvested[CHOOSE k \in S : Harvested[k].name = n].bytes]

NextExtract ==
    \/ \E ri \in RIs, up \in BOOLEAN, limit \in {0, 1}, keep_spool \in BOOLEAN :
          ExtractStart(ri, up, limit, keep_spool, MinTokensArg, MinAlphaArg)
    \/ Pass1
    \/ Pass2

\* an extraction run starts on what fetch runs have left, with an empty
\* corpus and empty manifests
InitExtract ==
    /\ pc = "e_start"
    /\ exit = "none"
    /\ f = FIdle
    /\ net = NetIdle
    /\ faults = 0
    /\ e = EIdle
    /\ tika = <<>>
    /\ corpus = <<>>
    /\ manifest = [ri \in RIs |-> <<>>]
    /\ \E S \in SUBSET DOMAIN Harvested :
          /\ Cardinality(S) <= MaxSpool
          /\ \A j, k \in S : Harvested[j].name = Harvested[k].name => j = k
          /\ spool = SpoolOf(S)
          /\ flog = LogOf(S, 1)

SpecExtract == InitExtract /\ [][NextExtract]_vars

(***************************************************************************)
(* Properties of an extraction run.                                        *)
(***************************************************************************)
\* the manifest records the run has appended (the manifests start empty)
Appended == IF e.ri = NULL THEN <<>> ELSE manifest[e.ri]

\* the requests sent to the extraction service for the i-th file of the run
Requests(i) == {k \in DOMAIN tika : tika[k].i = i}

Failed(k) == tika[k].raised \/ tika[k].code # 200

RecordsOf(path) == {r \in DOMAIN Appended : Appended[r].source_spool_path = path}

\* C3: when the extraction service fails on a binary (a non-200 response or
\* an exception of the request), the document is skipped: no manifest record
\* is appended for it, and the run goes on (the exception does not end it).
C3_FailureSkipsDocument ==
    /\ exit # "exception"
    /\ \A k \in DOMAIN tika : Failed(k) => RecordsOf(tika[k].path) = {}

BelowFloor(qm) == qm.tokens < e.min_tokens \/ qm.alpha_ratio < e.min_alpha

\* C7: for every document whose Pass 1 returned, the OCR request is issued
\* (or is the next step of the run) if and only if Pass 1's tokens are below
\* the token floor or its alpha ratio is below the alpha floor; with both at
\* or above their floors the document gets exactly one service call.
C7_OcrGate ==
    \A k \in DOMAIN tika :
        tika[k].strategy = "no_ocr" /\ ~tika[k].raised =>
            LET second == /\ k + 1 \in DOMAIN tika
                          /\ tika[k + 1].i = tika[k].i
                          /\ tika[k + 1].strategy = "ocr_and_text"
                pending == k = Len(tika) /\ pc = "e_pass2" /\ e.i = tika[k].i
            IN  IF BelowFloor(tika[k].qm)
                THEN second \/ pending
                ELSE ~pending /\ Cardinality(Requests(tika[k].i)) = 1

\* one document of the run passed the gate with a single call and is
\* recorded, another one got the OCR request
C7_Witness ==
    /\ \E k \in DOMAIN tika :
          /\ tika[k].strategy = "no_ocr" /\ ~tika[k].raised
          /\ ~BelowFloor(tika[k].qm)
          /\ tika[k].qm.tokens > 0
          /\ RecordsOf(tika[k].path) # {}
    /\ \E k \in DOMAIN tika : tika[k].strategy = "ocr_and_text"

\* Pass 2 has run for the request k: it returned, after Pass 1 of the same file
Pass2Ran(k) == k \in DOMAIN tika /\ tika[k].strategy = "ocr_and_text" /\ ~tika[k].raised

Better(k) ==
    \/ tika[k].qm.tokens > tika[k - 1].qm.tokens
    \/ tika[k].qm.text_quality_score > tika[k - 1].qm.text_quality_score

\* the record r holds the result of request k, and so does the text file of
\* its digest as long as no later document has written it
Holds(r, k, applied, strategy) ==
    /\ Appended[r].ocr_applied = applied
    /\ Appended[r].ocr_strategy = strategy
    /\ Appended[r].metrics = tika[k].qm
    /\ r = Len(Appended) =>
          corpus[<<e.ri, Appended[r].sha256>>] = tika[k].text

\* C8: when Pass 2 has run, the document has one record; that record and the
\* text file hold Pass 2's text and metrics with ocr_applied = TRUE and
\* ocr_strategy = "ocr_and_text" if and only if Pass 2's tokens or score are
\* strictly greater than Pass 1's; otherwise they hold Pass 1's, with
\* ocr_applied = FALSE.
C8_OcrAdoption ==
    \A k \in DOMAIN tika :
        Pass2Ran(k) =>
            /\ tika[k - 1].i = tika[k].i /\ tika[k - 1].strategy = "no_ocr"
            /\ Cardinality(RecordsOf(tika[k].path)) = 1
            /\ \A r \in RecordsOf(tika[k].path) :
                  IF Better(k)
                  THEN Holds(r, k, TRUE, "ocr_and_text")
                  ELSE Holds(r, k - 1, FALSE, "no_ocr")

\* in one run Pass 2 was adopted for a document, with other text and metrics
\* than Pass 1's, and was not adopted for another, tied with Pass 1
C8_Witness ==
    /\ \E k \in DOMAIN tika :
          /\ Pass2Ran(k) /\ Better(k) /\ tika[k].text # tika[k - 1].text
          /\ \E r \in RecordsOf(tika[k].path) : Appended[r].ocr_applied
    /\ \E k \in DOMAIN tika :
          /\ Pass2Ran(k) /\ ~Better(k) /\ tika[k].qm = tika[k - 1].qm
          /\ \E r \in RecordsOf(tika[k].path) : ~Appended[r].ocr_applied

\* C9: within one extraction run at most one manifest record is appended per
\* (source repository, sha256).
C9_OneRecordPerDigest ==
    \A a, b \in DOMAIN Appended : Appended[a].sha256 = Appended[b].sha256 => a = b

\* C10: if the sanity check of the extraction service fails, the run ends
\* with exit status 1 before any document is touched: no extraction request
\* is sent, no text file is written, no manifest record is appended and no
\* spool file is deleted.
C10_UnreachableServiceAborts ==
    e.ri # NULL /\ ~e.up =>
        /\ pc = "done"
        /\ exit = "exit1"
        /\ tika = <<>>
        /\ corpus = e.start.corpus
        /\ manifest = e.start.manifest
        /\ spool = e.start.spool

\* the sanity check failed on a run that had files to process
C10_Witness ==
    /\ e.ri # NULL
    /\ ~e.up
    /\ exit = "exit1"
    /\ Cardinality(DOMAIN spool) = MaxSpool

(***************************************************************************)
(* find_urls_from_xml on its own: a well-formed record with up to MaxIds   *)
(* dc:identifier elements is resolved; f holds xml and the returned urls.  *)
(***************************************************************************)
Identifiers ==
    {"doi:10.1/abc", "https://doi.org/10.1/abc", "https://doi.org/10.1/b.pdf",
     "https://doi.org/10.1/xyz", "doi.org/10.1/abc",
     "https://hdl.handle.net/1/2", "https://repo.example/a.pdf",
     "https://repo.example/bitstream/1", "oai:repo.example:42", ""}

IdentifierLists == UNION {[1..n -> Identifiers] : n \in 0..MaxIds}

Resolve ==
    /\ pc = "r_start"
    /\ pc' = "done"
    /\ f' = [f EXCEPT !.urls = find_urls_from_xml(f.xml)]
    /\ UNCHANGED <<exit, flog, spool, net, corpus, manifest, e, tika, faults>>

InitResolve ==
    /\ pc = "r_start"
    /\ exit = "none"
    /\ flog = <<>>
    /\ spool = <<>>
    /\ net = NetIdle
    /\ corpus = <<>>
    /\ manifest = [ri \in RIs |-> <<>>]
    /\ e = EIdle
    /\ tika = <<>>
    /\ faults = 0
    /\ \E ids \in IdentifierLists :
          f = [ri |-> NULL, xml |-> [wellformed |-> TRUE, identifiers |-> ids], urls |-> <<>>]

SpecResolve == InitResolve /\ [][Resolve]_vars

(***************************************************************************)
(* Properties of the resolver.                                             *)
(***************************************************************************)
IsDoiLink(u) == Contains(Lower(u), "doi.org")

IsHandleLink(u) == Contains(Lower(u), "handle") \/ Contains(Lower(u), "hdl.handle.net")

IsPdfLink(u) == EndsWith(Lower(u), ".pdf")

\* the four classes: 1 DOI resolver, 2 handle, 3 document extension, 4 the rest
Class(u) ==
    IF IsDoiLink(u) THEN 1 ELSE IF IsHandleLink(u) THEN 2 ELSE IF IsPdfLink(u) THEN 3 ELSE 4

\* the order of the keys (not DOI, not handle, not .pdf), compared as tuples
KeyLess(u, v) ==
    \/ IsDoiLink(u) /\ ~IsDoiLink(v)
    \/ /\ IsDoiLink(u) = IsDoiLink(v)
       /\ \/ IsHandleLink(u) /\ ~IsHandleLink(v)
          \/ /\ IsHandleLink(u) = IsHandleLink(v)
             /\ IsPdfLink(u) /\ ~IsPdfLink(v)

KeyEq(u, v) == ~KeyLess(u, v) /\ ~KeyLess(v, u)

\* the qualifying identifiers of the record, normalized, in document order
Qualifying == collect_urls(f.xml.identifiers)

FirstOcc(u) == CHOOSE k \in DOMAIN Qualifying :
                   Qualifying[k] = u /\ \A j \in DOMAIN Qualifying : Qualifying[j] = u => k <= j

\* C11 as stated: the candidates are ordered by the four classes, and two
\* candidates of the same class keep the order of their identifiers.
C11_FourClassesStable ==
    pc = "done" =>
        \A i, j \in DOMAIN f.urls :
            i < j => /\ Class(f.urls[i]) <= Class(f.urls[j])
                     /\ Class(f.urls[i]) = Class(f.urls[j])
                            => FirstOcc(f.urls[i]) < FirstOcc(f.urls[j])

\* C11 amended: the candidates are ordered by the key (not DOI, not handle,
\* not .pdf) compared as a tuple, so that DOI links come first, then handle
\* links, then .pdf links, then the rest; two candidates with the same key
\* keep the order of their identifiers.
C11_KeyOrderStable ==
    pc = "done" =>
        \A i, j \in DOMAIN f.urls :
            i < j => /\ ~KeyLess(f.urls[j], f.urls[i])
                     /\ Class(f.urls[i]) <= Class(f.urls[j])
                     /\ KeyEq(f.urls[i], f.urls[j])
                            => FirstOcc(f.urls[i]) < FirstOcc(f.urls[j])

\* a DOI link ending in .pdf was moved before a DOI link given earlier, and
\* two links with the same key kept their order
C11_Witness ==
    /\ pc = "done"
    /\ \E i, j \in DOMAIN f.urls :
          /\ i < j
          /\ Class(f.urls[i]) = Class(f.urls[j])
          /\ FirstOcc(f.urls[i]) > FirstOcc(f.urls[j])
    /\ \E i, j \in DOMAIN f.urls : i < j /\ KeyEq(f.urls[i], f.urls[j])

\* u comes before v in the priority order of first occurrences
Before(u, v) ==
    \/ KeyLess(u, v)
    \/ KeyEq(u, v) /\ FirstOcc(u) < FirstOcc(v)

\* C12: the returned list holds no string twice, it holds exactly the
\* qualifying identifiers (normalized), and each one stands where its first
\* occurrence falls in the priority order.
C12_DedupKeepsFirst ==
    pc = "done" =>
        LET strings == {Qualifying[k] : k \in DOMAIN Qualifying}
        IN  /\ \A i, j \in DOMAIN f.urls : f.urls[i] = f.urls[j] => i = j
            /\ {f.urls[i] : i \in DOMAIN f.urls} = strings
            /\ \A i \in DOMAIN f.urls :
                  i = Cardinality({w \in strings : Before(w, f.urls[i])}) + 1

\* a record naming the same link twice (once as doi:) among other links
C12_Witness ==
    /\ pc = "done"
    /\ Len(f.urls) >= 2
    /\ Len(f.urls) < Len(Qualifying)

(***************************************************************************)
(* More properties of a fetch run.                                         *)
(***************************************************************************)
IsQualifying(t) ==
    \/ StartsWith(t, "http://") \/ StartsWith(t, "https://")
    \/ Contains(Lower(t), "doi.org")
    \/ StartsWith(Lower(t), "doi:")

\* the parseable records none of whose identifiers is a link or a DOI
NoQualifyingDocs ==
    {d \in DocIds :
        /\ XmlDocs[d].wellformed
        /\ \A k \in DOMAIN XmlDocs[d].identifiers : ~IsQualifying(Strip(XmlDocs[d].identifiers[k]))}

RequestStates == {"f_head", "f_dl_get", "f_dl_stream", "f_sniff_get", "f_scrape", "f_head2"}

\* the log lines of the i-th record of the run
LinesOf(i) == {k \in DOMAIN flog : flog[k].source = SourceOf[f.ri][i]}

C13_NoUrlState ==
    f.ri # NULL =>
        /\ \A i \in 1..f.fi :
              f.files[i] \in NoQualifyingDocs =>
                  /\ Cardinality(LinesOf(i)) = 1
                  /\ \A k \in LinesOf(i) : flog[k].status = "no_url" /\ flog[k].url = NULL
        /\ pc \in RequestStates => f.files[f.fi] \notin NoQualifyingDocs

C13_NoUrlStep ==
    /\ pc = "f_loop"
    /\ f.fi < Len(f.files)
    /\ f.picked < f.limit
    /\ f.files[f.fi + 1] \in NoQualifyingDocs
    => /\ pc' = "f_loop"
       /\ flog' = Append(flog, LogLine(f.ri, SourceOf[f.ri][f.fi + 1], NULL, "no_url"))
       /\ spool' = spool
       /\ f'.seen = f.seen
       /\ net' = net
       /\ faults' = faults

\* C13: a parseable record with no qualifying identifier gets exactly one
\* log line, with status no_url, at the step that takes it up; that step
\* leaves the spool and seen_hashes unchanged, and the run is never in a
\* state that issues a HEAD or GET for such a record.
C13_NoUrl == [](C13_NoUrlState) /\ [][C13_NoUrlStep]_vars

\* a run has logged no_url for a record and has gone on to download for
\* the next one
C13_Witness ==
    /\ pc = "done"
    /\ f.ri # NULL
    /\ \E i \in 1..f.fi : f.files[i] \in NoQualifyingDocs /\ i < f.fi
    /\ \E k \in DOMAIN flog : flog[k].status = "ok"

(***************************************************************************)
(* normalize_text and quality_metrics on their own: a text of up to        *)
(* MaxText characters, or the text of the documented example, is           *)
(* normalized and measured; e holds text, text_norm and qm.                *)
(***************************************************************************)
\* "\r\n\r\n\r\n\r\nHello   world\x07"
ExampleText ==
    <<13, 10, 13, 10, 13, 10, 13, 10, 72, 101, 108, 108, 111, 32, 32, 32,
      119, 111, 114, 108, 100, 7>>

\* CR, LF, space, tab, "a", BEL and the combining acute accent
TextAlphabet == {CR, LF, SPACE, TAB, 97, 7, 769}

Texts == UNION {[1..n -> TextAlphabet] : n \in 0..MaxText} \cup {ExampleText}

Normalize ==
    /\ pc = "n_start"
    /\ pc' = "done"
    /\ LET text_norm == normalize_text(e.text)
       IN  e' = [e EXCEPT !.text_norm = text_norm, !.qm = quality_metrics(text_norm)]
    /\ UNCHANGED <<exit, flog, spool, f, net, corpus, manifest, tika, faults>>

InitNormalize ==
    /\ pc = "n_start"
    /\ exit = "none"
    /\ flog = <<>>
    /\ spool = <<>>
    /\ f = FIdle
    /\ net = NetIdle
    /\ corpus = <<>>
    /\ manifest = [ri \in RIs |-> <<>>]
    /\ tika = <<>>
    /\ faults = 0
    /\ \E text \in Texts :
          e = [ri |-> NULL, text |-> text, text_norm |-> <<>>, qm |-> quality_metrics(<<>>)]

SpecNormalize == InitNormalize /\ [][Normalize]_vars

\* C14 as stated: the example text normalizes to "\n\nHello  world".
C14_ExampleKeepsNewlines ==
    pc = "done" /\ e.text = ExampleText =>
        e.text_norm = <<10, 10, 72, 101, 108, 108, 111, 32, 32, 119, 111, 114, 108, 100>>

\* C14 amended: the example text normalizes to "Hello  world" (the leading
\* newlines, collapsed to two, are trimmed with the other outer whitespace).
C14_ExampleTrimmed ==
    pc = "done" /\ e.text = ExampleText =>
        e.text_norm = <<72, 101, 108, 108, 111, 32, 32, 119, 111, 114, 108, 100>>

\* the example text has been normalized
C14_Witness == pc = "done" /\ e.text = ExampleText /\ Len(e.text_norm) > 0

\* the URL of the GET that the next step of a retry-wrapped call issues
GetUrl == IF pc = "f_dl_get" THEN f.target ELSE CurUrl

\* the lines main writes when the current candidate ends with an error
ErrorLines ==
    <<[LogLine(f.ri, f.source, CurUrl, "error") EXCEPT !.note = "RetryError"]>>
        \o (IF f.ui < Len(f.urls) THEN <<>>
            ELSE <<LogLine(f.ri, f.source, NULL, "no_download")>>)

C15_AttemptsBounded ==
    f.ri # NULL =>
        /\ net.gets <= 3
        /\ f.attempt <= 3
        /\ pc \in {"f_dl_get", "f_sniff_get"} => f.attempt < 3
        /\ exit # "exception" \/ f.files[f.fi] \in {d \in DocIds : ~XmlDocs[d].wellformed}

\* a GET to a server that does not answer, in get_stream or download_stream
C15_FailedGetStep ==
    pc \in {"f_dl_get", "f_sniff_get"} /\ IsDown[GetUrl] =>
        IF f.attempt < 2
        THEN pc' = pc /\ f'.attempt = f.attempt + 1 /\ flog' = flog /\ exit' = exit
        ELSE /\ flog' = flog \o ErrorLines
             /\ exit' = exit
             /\ IF f.ui < Len(f.urls)
                THEN pc' = "f_head" /\ f'.ui = f.ui + 1 /\ f'.fi = f.fi
                ELSE pc' = "f_loop"

\* C15: each retry-wrapped call issues at most 3 GETs; when the GET keeps
\* failing, the third failure gives the candidate URL one error line and the
\* run goes on with the next candidate (or the next record): no run ends
\* with an exception because of a failed GET.
C15_BoundedRetry == [](C15_AttemptsBounded) /\ [][C15_FailedGetStep]_vars

\* both wrapped calls have given up on a server that does not answer, and
\* the run has gone on to a download that was logged ok
C15_Witness ==
    /\ pc = "done"
    /\ exit = "ok"
    /\ \E k \in DOMAIN flog :
          /\ flog[k].status = "error"
          /\ flog[k].url = "https://down.example/y.pdf"
          /\ \E j \in DOMAIN flog : j > k /\ flog[j].status = "ok"
    /\ \E k \in DOMAIN flog : flog[k].status = "error" /\ flog[k].url = "https://down.example/handle/1"

\* C16: when an attempt of download_stream has ended without success (the
\* ceiling was exceeded, or the stream broke), the file it was writing does
\* not exist; and at the end of a run the files in the spool are exactly
\* the paths of the ok lines.
C16_FailedDownloadLeavesNoFile ==
    f.ri # NULL =>
        /\ net.ended \in {"oversize", "broken"} => f.path \notin DOMAIN spool
        /\ pc = "done" =>
              {SpoolPath(n) : n \in DOMAIN spool} = {flog[k].path : k \in OkLines}

\* the lines about the attempts on the candidates of the i-th record, and
\* the lines about the record itself
AttemptLinesOf(i) == {k \in LinesOf(i) : flog[k].status \in AttemptStatus}

RecordLinesOf(i) == {k \in LinesOf(i) : flog[k].status \in {"no_url", "no_download"}}

\* the run is done with the i-th record
Ended(i) == i < f.fi \/ (i = f.fi /\ pc \in {"f_loop", "done"})

\* C17: while the candidates of a record are tried, each candidate already
\* attempted has exactly one line, with status ok, duplicate, skipped or
\* error; a record that has ended without an ok line has exactly one
\* record-level line (no_url or no_download), and every line of the log is
\* of one of these kinds.
C17_EveryOutcomeLogged ==
    f.ri # NULL =>
        /\ \A k \in DOMAIN flog : flog[k].status \in AttemptStatus \cup {"no_url", "no_download"}
        /\ pc \in RequestStates =>
              /\ Cardinality(AttemptLinesOf(f.fi)) = f.ui - 1
              /\ RecordLinesOf(f.fi) = {}
        /\ \A i \in 1..f.fi :
              Ended(i) =>
                  IF \E k \in AttemptLinesOf(i) : flog[k].status = "ok"
                  THEN RecordLinesOf(i) = {}
                  ELSE Cardinality(RecordLinesOf(i)) = 1

\* C19: for every ok line of the run, the file at the recorded path is in
\* the spool, and its SHA-256 and its length are the sha256 and the bytes
\* of the line.
C19_OkMatchesFile ==
    f.ri # NULL =>
        \A k \in OkLines :
            /\ Cardinality(FileAt(flog[k].path)) = 1
            /\ \A n \in FileAt(flog[k].path) :
                  /\ flog[k].sha256 = sha256(spool[n])
                  /\ flog[k].bytes = Len(spool[n])

\* two files of two chunks each were downloaded and logged ok
C19_Witness ==
    /\ f.ri # NULL
    /\ \E j, k \in OkLines :
          /\ flog[j].path # flog[k].path
          /\ flog[j].bytes > 3
          /\ flog[k].bytes > 3

(***************************************************************************)
(* More properties of an extraction run.                                   *)
(***************************************************************************)
\* the bytes of the spool file a manifest record names, as they were sent
SentBytes(r) ==
    e.start.spool[CHOOSE n \in DOMAIN e.start.spool :
                     SpoolPath(n) = Appended[r].source_spool_path]

\* C18: the sha256 of every manifest record appended, which is also the
\* name of the text file, is the SHA-256 of the bytes of the spool file
\* that was sent to the extraction service.
C18_DigestOfSentBytes ==
    \A r \in DOMAIN Appended :
        /\ Appended[r].sha256 = sha256(SentBytes(r))
        /\ <<e.ri, sha256(SentBytes(r))>> \in DOMAIN corpus

\* the i-th file of the run has been through the loop body
Processed(i) == i < e.i \/ (i = e.i /\ pc = "done" /\ exit = "ok")

\* the extraction service answered a request for the i-th file with text
Extracted(i) == \E k \in Requests(i) : ~Failed(k)

\* each manifest is the old one, or the old one plus one line at the end
AppendOnlyStep ==
    \A ri \in RIs :
        \/ manifest'[ri] = manifest[ri]
        \/ /\ Len(manifest'[ri]) = Len(manifest[ri]) + 1
           /\ SubSeq(manifest'[ri], 1, Len(manifest[ri])) = manifest[ri]

\* the run has appended one line for each file that has been processed and
\* successfully extracted, and none for any other file
OneLinePerExtracted ==
    e.ri # NULL =>
        \A i \in 1..Len(e.files) :
            Cardinality(RecordsOf(SpoolPath(e.files[i]))) =
                IF Processed(i) /\ Extracted(i) THEN 1 ELSE 0

\* C20: the manifest is append-only: every action leaves the existing lines
\* unchanged and in place and adds zero or one line at the end, and within a
\* run exactly one line is appended per successfully extracted document.
C20_AppendOnlyOnePerExtracted ==
    /\ []OneLinePerExtracted
    /\ [][AppendOnlyStep]_vars

\* C21: a spool binary of the run is deleted if and only if it has been
\* processed, its extraction succeeded and --keep-spool was not given; a
\* binary whose extraction failed is never deleted.
C21_DeletedIffExtracted ==
    e.ri # NULL =>
        \A i \in 1..Len(e.files) :
            (e.files[i] \notin DOMAIN spool) <=>
                (Processed(i) /\ Extracted(i) /\ ~e.keep_spool)

\* C22: for every document recorded, the score recorded for the adopted
\* text is never lower than the score of Pass 1's text.
C22_ScoreNeverLower ==
    \A k \in DOMAIN tika :
        tika[k].strategy = "no_ocr" =>
            \A r \in RecordsOf(tika[k].path) :
                Appended[r].metrics.text_quality_score >= tika[k].qm.text_quality_score

(***************************************************************************)
(* More properties of a fetch run: the landing-page step.                  *)
(***************************************************************************)
\* the candidate URL the run is working on
Candidate == IF f.ri = NULL THEN <<0, 0>> ELSE <<f.fi, f.ui>>

\* the run is past the scrape of the current candidate: at the HEAD of the
\* followed link, or downloading it
FollowingLink ==
    \/ pc = "f_head2"
    \/ pc \in {"f_dl_get", "f_dl_stream"} /\ f.target # CurUrl

\* the steps around the landing-page scrape: the scrape is entered only from
\* the sniff of the candidate and is one step; a link it returns goes to one
\* HEAD, and from there to download_stream or to the end of the attempt;
\* while the link is followed the run never goes (back) to a sniff or a
\* scrape, and the sniff of a candidate is entered only from its own HEAD
ScrapeOnceStep ==
    /\ pc' = "f_scrape" => pc = "f_sniff_get"
    /\ pc' = "f_sniff_get" => pc \in {"f_head", "f_sniff_get"} /\ Candidate' = Candidate
    /\ pc' = "f_head" => Candidate' # Candidate
    /\ pc' = "f_head2" => pc = "f_scrape" /\ Candidate' = Candidate
    /\ pc = "f_head2" => \/ pc' = "f_dl_get" /\ net'.url = f.target /\ Candidate' = Candidate
                         \/ pc' \in {"f_head", "f_loop"}
    /\ FollowingLink => pc' \notin {"f_sniff_get", "f_scrape", "f_head2"}

\* C23: for each candidate URL at most one landing-page scrape is performed,
\* and the link obtained from it is either downloaded directly, after one
\* fresh HEAD and type check, or abandoned: the followed link is never
\* itself sniffed or scraped.
C23_OneLevelOfScrape == [][ScrapeOnceStep]_vars

\* the lines logged for the i-th record of the run that name a URL which
\* is none of the record's candidates: the URL is a followed link
FollowedLines(i) ==
    {k \in DOMAIN flog :
        /\ flog[k].source = SourceOf[f.ri][i]
        /\ flog[k].url # NULL
        /\ \A j \in DOMAIN CandidatesOf[f.files[i]] : CandidatesOf[f.files[i]][j] # flog[k].url}

\* with no request failed: one record's landing page gave a link that the
\* gate rejected, and the candidate was skipped; another's gave a link that
\* was downloaded
C23_Witness ==
    /\ f.ri # NULL
    /\ faults = 0
    /\ \E k \in DOMAIN flog :
          /\ flog[k].status = "skipped"
          /\ flog[k].url \in CandidateUrls
          /\ LinkOf[flog[k].url] # NULL
          /\ ~Gate[LinkOf[flog[k].url]][TRUE][f.ri]
    /\ \E i \in 1..f.fi : \E k \in FollowedLines(i) : flog[k].status = "ok"

\* the HEAD of the step is not answered: the server is down, or one of the
\* transient failures hits
HeadFails == pc = "f_head" /\ (IsDown[CurUrl] \/ faults' = faults + 1)

\* a failed HEAD: the declared type is empty, the candidate goes through the
\* gate to download_stream or to the GET of the sniff, and nothing is logged
HeadFailureStep ==
    HeadFails =>
        /\ f'.ctype = ""
        /\ Candidate' = Candidate
        /\ flog' = flog
        /\ exit' = exit
        /\ f'.attempt = 0
        /\ IF is_allowed_mime("", CurUrl, f.allowed)
           THEN pc' = "f_dl_get" /\ f'.target = CurUrl
           ELSE pc' = "f_sniff_get"

\* C24: a HEAD probe that fails is issued only once and never by itself ends
\* the attempt on the URL: the declared type is taken as empty, the URL goes
\* through the type gate and, if not admitted, to the GET/sniff step, and
\* no error line is logged on account of the HEAD failure.
C24_HeadFailureGoesOn == [][HeadFailureStep]_vars

\* the HEAD of a landing page failed; the page was then sniffed and scraped
\* and the candidate was skipped with the empty declared type, with no error
\* line, and the next candidate was downloaded
C24_Witness ==
    /\ f.ri # NULL
    /\ \E k \in DOMAIN flog :
          /\ flog[k].status = "skipped"
          /\ flog[k].note = ""
          /\ k < Len(flog)
          /\ flog[k + 1].status = "ok"
          /\ flog[k + 1].source = flog[k].source
    /\ \A k \in DOMAIN flog : flog[k].status # "error"

(***************************************************************************)
(* The type gate on its own: is_allowed_mime on a declared type, a URL and *)
(* an allow-list, and the branch main takes on its result; f holds the     *)
(* arguments.                                                              *)
(***************************************************************************)
GateTypes ==
    {"", "application/pdf", "Application/PDF; charset=binary", "application/pdfx",
     "text/html", "application/octet-stream", "application/msword"}

GateUrls ==
    {"https://repo.example/a.pdf", "https://repo.example/A.PDF?dl=1#p2",
     "https://repo.example/a.pdf?x=1?y=2", "https://repo.example/view?f=a.pdf",
     "https://repo.example/bitstream/1", "https://repo.example/a.doc"}

AllowLists ==
    {{"application/pdf"}, {"application/msword"}, {"application/pdf", "application/msword"}}

\* "if is_allowed_mime(ctype, url, allowed): res = download_stream(...)",
\* else the GET of the sniff
TypeGate ==
    /\ pc = "g_start"
    /\ pc' = IF is_allowed_mime(f.ctype, f.url, f.allowed) THEN "g_download" ELSE "g_sniff"
    /\ UNCHANGED <<exit, flog, spool, f, net, corpus, manifest, e, tika, faults>>

InitGate ==
    /\ pc = "g_start"
    /\ exit = "none"
    /\ flog = <<>>
    /\ spool = <<>>
    /\ net = NetIdle
    /\ corpus = <<>>
    /\ manifest = [ri \in RIs |-> <<>>]
    /\ e = EIdle
    /\ tika = <<>>
    /\ faults = 0
    /\ \E ctype \in GateTypes, url \in GateUrls, allowed \in AllowLists :
          f = [ri |-> NULL, ctype |-> header_ctype(ctype), url |-> url, allowed |-> allowed]

SpecGate == InitGate /\ [][TypeGate]_vars

\* the declared type begins with an allow-listed type
BeginsAllowed == \E m \in f.allowed : StartsWith(Lower(f.ctype), m)

\* the URL without its query and its fragment
WithoutQueryFragment(url) == SplitHead(SplitHead(url, "#"), "?")

\* the URL without its query and fragment ends in the extension of an
\* allow-listed type
EndsInAllowedExtension ==
    \E a \in f.allowed :
        /\ EXT_BY_CTYPE(a) # NULL
        /\ EndsWith(Lower(WithoutQueryFragment(f.url)), EXT_BY_CTYPE(a))

\* C25 as stated: the gate admits a URL for direct download if and only if
\* its declared type begins with an allow-listed type, or its declared type
\* is empty and the URL (query and fragment removed) ends in an allowed
\* document extension; a URL with a non-empty declared type outside the
\* allow-list is never downloaded directly.
C25_FallbackOnEmptyType ==
    pc # "g_start" =>
        /\ pc = "g_download" <=> (BeginsAllowed \/ (f.ctype = "" /\ EndsInAllowedExtension))
        /\ f.ctype # "" /\ ~BeginsAllowed => pc # "g_download"

\* the URL cut before its last "?" and then before its last "#"
CutLast(url) == RSplitHead(RSplitHead(url, "?"), "#")

\* C25, amended: the gate admits a URL for direct download if and only if
\* its declared type begins with an allow-listed type, or the URL, cut
\* before its last "?" and then before its last "#", ends in .pdf and a type
\* beginning with application/pdf is allow-listed, whatever the declared
\* type; a URL with a non-empty declared type outside the allow-list is
\* downloaded directly only by that extension fallback.
C25_FallbackOnExtension ==
    pc # "g_start" =>
        LET pdf == /\ EndsWith(CutLast(Lower(f.url)), ".pdf")
                   /\ \E a \in f.allowed : StartsWith(a, "application/pdf")
        IN  /\ pc = "g_download" <=> (BeginsAllowed \/ pdf)
            /\ f.ctype # "" /\ ~BeginsAllowed /\ pc = "g_download" => pdf

\* a URL ending in .pdf whose declared type is text/html was admitted
C25_Witness ==
    /\ pc = "g_download"
    /\ f.ctype = "text/html"
    /\ f.url = "https://repo.example/a.pdf"
    /\ f.allowed = {"application/pdf"}

(***************************************************************************)
(* scrape_pdf_link on its own: a landing page with up to MaxHrefs anchors, *)
(* fetched or not; f holds the page and the link returned.                 *)
(***************************************************************************)
Hrefs ==
    {"/bitstream/42/a.pdf", " /files/a.pdf?x=1 ", "/about.html", "b.PDF",
     "https://other.example/bitstream/9", " "}

HrefLists == UNION {[1..n -> Hrefs] : n \in 0..MaxHrefs}

\* scrape_pdf_link: None when the GET or raise_for_status raises
ScrapePage ==
    /\ pc = "s_start"
    /\ pc' = "done"
    /\ f' = [f EXCEPT !.link = IF f.fetched THEN FirstLink(f.final, StripAll(f.hrefs))
                               ELSE NULL]
    /\ UNCHANGED <<exit, flog, spool, net, corpus, manifest, e, tika, faults>>

InitScrape ==
    /\ pc = "s_start"
    /\ exit = "none"
    /\ flog = <<>>
    /\ spool = <<>>
    /\ net = NetIdle
    /\ corpus = <<>>
    /\ manifest = [ri \in RIs |-> <<>>]
    /\ e = EIdle
    /\ tika = <<>>
    /\ faults = 0
    /\ \E hrefs \in HrefLists, fetched \in BOOLEAN :
          f = [ri |-> NULL, final |-> "https://repo.example/handle/42", hrefs |-> hrefs,
               fetched |-> fetched, link |-> NULL]

SpecScrape == InitScrape /\ [][ScrapePage]_vars

\* the href contains .pdf or /bitstream/, in any letter case
NamesDocument(h) == Contains(Lower(h), ".pdf") \/ Contains(Lower(h), "/bitstream/")

\* the href resolved against the final URL of the page
Resolved(h) == urljoin(f.final, Strip(h))

\* the resolved href ends in .pdf or contains /bitstream/, in any letter case
ResolvesToDocument(h) ==
    EndsWith(Lower(Resolved(h)), ".pdf") \/ Contains(Lower(Resolved(h)), "/bitstream/")

\* the first index of the page's anchors in I, 0 if I is empty
FirstOf(I) == IF I = {} THEN 0 ELSE CHOOSE k \in I : \A j \in I : k <= j

LimitState ==
    f.ri # NULL =>
        /\ \A i \in 1..f.fi : Cardinality(LinesOf(i) \cap OkLines) <= 1
        /\ \A k \in OkLines : \A j \in DOMAIN flog : j > k => flog[j].source # flog[k].source
        /\ f.picked = Cardinality(OkLines)
        /\ f.picked <= f.limit
        /\ pc \in RequestStates => f.picked < f.limit /\ ~f.success

\* at the top of the loop with the limit reached, the run ends without
\* reading another record
LimitStep ==
    pc = "f_loop" /\ f.picked >= f.limit =>
        /\ pc' = "done"
        /\ exit' = "ok"
        /\ f' = f
        /\ flog' = flog

\* C27: in any fetch run at most one ok download is recorded per metadata
\* record (candidates after the first success are not attempted),
\* duplicates do not count toward the total, the number of ok downloads
\* never exceeds --limit, and once the limit is reached no further record
\* is read.
C27_LimitRespected == [](LimitState) /\ [][LimitStep]_vars

\* the run ended on the limit with a record left unread, after an ok
\* download that left candidates of its record untried
C27_Witness ==
    /\ f.ri # NULL
    /\ pc = "done"
    /\ f.picked = f.limit
    /\ f.fi < Len(f.files)
    /\ f.ui < Len(f.urls)
    /\ flog[Len(flog)].status = "ok"

(***************************************************************************)
(* More properties of the resolver.                                        *)
(***************************************************************************)
IsAbsoluteHttpUrl(u) == StartsWith(u, "http://") \/ StartsWith(u, "https://")

\* C28: every candidate returned by find_urls_from_xml is an absolute
\* http(s) URL: an identifier is kept only if it is one, or it is turned
\* into one by normalization (a doi: token becomes https://doi.org/<rest>).
C28_CandidatesAreAbsolute ==
    pc = "done" => \A k \in DOMAIN f.urls : IsAbsoluteHttpUrl(f.urls[k])

(***************************************************************************)
(* More properties of the text functions.                                  *)
(***************************************************************************)
\* C29: normalize_text is idempotent: normalizing the normalized text again
\* leaves it unchanged, also when a stripped control character sits between
\* a base letter and a combining mark.
C29_NormalizeIdempotent ==
    pc = "done" /\ e.ri = NULL => normalize_text(e.text_norm) = e.text_norm

(***************************************************************************)
(* More properties of an extraction run: the repository of a record.       *)
(***************************************************************************)
\* C30: the ri of every manifest record appended is the ri of the ok line
\* of the fetch log for its binary: a run for one repository never records,
\* under its manifest, a binary that was fetched for another.
C30_RecordUnderFetchRi ==
    \A r \in DOMAIN Appended :
        Appended[r].source_spool_path \in DOMAIN e.idx =>
            e.idx[Appended[r].source_spool_path].ri = Appended[r].ri

=============================================================================
